---- MODULE Spec2Model ----
(***************************************************************************)
(* State-machine model of the match manager bot (src/main.py): the single  *)
(* in-process match record, the guild's voice state, the queue of           *)
(* voice-state notifications waiting for on_voice_state_update, and the     *)
(* command handlers, each split at the awaits where other handlers can run. *)
(***************************************************************************)
EXTENDS Integers, Sequences, FiniteSets, TLC

\* ------------------------------------------------------------------ guild
Humans == {1, 2}
Bots == {3}
Members == Humans \cup Bots

\* Bounds of the model.
MaxCat == 2      \* category ids in use at the same time
MaxQueue == 2    \* notifications waiting when a new user/command move is admitted

\* Voice channel ids.  NoChan is Python's None; General is a voice channel of
\* the guild outside every match category; category k owns 4k (lobby),
\* 4k+1 (team1) and 4k+2 (team2).
NoChan == 0
General == 1
Teams == {"team1", "team2"}
Modes == {"allow", "deny"}
lobby_vc_id(cat) == 4 * cat
team_vc_ids(cat) == [t \in Teams |-> IF t = "team1" THEN 4 * cat + 1 ELSE 4 * cat + 2]
CatChannelSeq(cat) == <<lobby_vc_id(cat), team_vc_ids(cat)["team1"], team_vc_ids(cat)["team2"]>>
CatOf(ch) == ch \div 4

\* Mention lists a caller can pass as team1 / team2 (a mention of a bot is dropped).
Rosters == {<<<<1>>, <<2>>>>, <<<<2>>, <<1>>>>, <<<<2>>, <<3>>>>}

VARIABLES
    inGuild,     \* members still in the guild (guild.get_member succeeds)
    voice,       \* member -> voice channel id, NoChan when not connected
    channels,    \* existing voice channels
    categories,  \* existing match categories
    forbidden,   \* kinds of request the platform refuses the bot ("move", "delete")
    match,       \* bot.match
    queue,       \* voice-state notifications not yet handled, in arrival order
    starts,      \* caller -> startmatch invocation in flight
    ends,        \* source -> end_match_internal run in flight
    swaps,       \* the swap invocation in flight
    views,       \* EndMatchApprovalView objects waiting for the owner's click; issued_for
                 \* is history: the category of the match the request was made in
    expected,    \* history: member -> zone of the last assignment the engine made
    closed,      \* voice channels whose overwrite denies connect to @everyone
    timer,       \* the asyncio task of match.timer_task and how far it has run
    last,        \* history: the step just taken
    inputs       \* number of commands and platform events so far

vars == <<inGuild, voice, channels, categories, forbidden, match, queue, starts, ends, swaps,
          views, closed, timer, expected, last, inputs>>

\* ------------------------------------------------------------------ values
NoMatch == [owner_id |-> 0, category_id |-> 0, move_mode |-> "none", locked |-> FALSE,
            original_voice |-> <<>>]

MatchState(owner, cat, mode, original) ==
    [owner_id |-> owner, category_id |-> cat, move_mode |-> mode, locked |-> FALSE,
     original_voice |-> original]

\* Who caused a notification: a member ("user"), a channel deletion ("delete"),
\* or a move_to the bot issued.
EngineSrcs == {"start", "revert", "move", "selfmove", "swap", "end"}

NoNotif == [m |-> 0, before |-> NoChan, after |-> NoChan, src |-> "none"]
Notif(m, b, a, src) == [m |-> m, before |-> b, after |-> a, src |-> src]

IdleStart == [pc |-> "idle", move |-> "none", roster |-> <<<<>>, <<>>>>, random |-> FALSE,
              cat |-> 0, original |-> <<>>, todo |-> <<>>]
IdleEnd == [pc |-> "idle", cat |-> 0, original |-> <<>>, todo |-> <<>>, dels |-> <<>>]
IdleSwap == [pc |-> "idle", who |-> 0, user1 |-> 0, user2 |-> 0, ch1 |-> NoChan, ch2 |-> NoChan]

\* match.timer_task: "none" is None, "created" a task that has not run yet,
\* "raised" a task ended by an exception, "cancelled" a task that was cancelled.
NoTimer == [pc |-> "none", auto_end |-> FALSE]

\* cancel_timer with the cancel left out.
cancel_timer_skipped(t) == t

\* Lines 168-170 (and 625-626, 653-654): a task that is not done is cancelled.
cancel_timer(t) == IF t.pc = "created" THEN [t EXCEPT !.pc = "cancelled"] ELSE t

\* The history record of a step: the handler, its caller, its outcome, the
\* move_to calls it issued, the notification it handled, the owner before it,
\* the announcement it sent, and its arguments.
StepArg(op, who, res, issued, n, old, ann, arg) ==
    [op |-> op, who |-> who, res |-> res, issued |-> issued, n |-> n, old |-> old, ann |-> ann,
     arg |-> arg]
Step(op, who, res, issued, n, old, ann) == StepArg(op, who, res, issued, n, old, ann, <<>>)

\* What the history records after a step of the environment.
EnvStep == Step("env", 0, "ok", {}, NoNotif, 0, <<>>)

RECURSIVE SeqToSet(_)
SeqToSet(s) == IF s = <<>> THEN {} ELSE {Head(s)} \cup SeqToSet(Tail(s))

RECURSIVE SelectSeqIn(_, _)
SelectSeqIn(s, S) ==
    IF s = <<>> THEN <<>>
    ELSE IF Head(s) \in S THEN <<Head(s)>> \o SelectSeqIn(Tail(s), S)
    ELSE SelectSeqIn(Tail(s), S)

\* ------------------------------------------------------------------ platform
is_bot(m) == m \in Bots

\* category.channels: the voice channels of an existing category.
category_channels(cat) == {ch \in channels : CatOf(ch) = cat /\ cat \in categories}

\* candidates without the bot filter of line 282.
candidates_with_bots(cat) == {m \in Members : voice[m] \in category_channels(cat)}

\* candidates over every voice channel of the guild.
candidates_anywhere(cat) == {m \in Members : voice[m] # NoChan /\ ~is_bot(m)}

\* vc.members over the match's voice channels, bots dropped (lines 280-282).
candidates(cat) == {m \in Members : voice[m] \in category_channels(cat) /\ ~is_bot(m)}

\* member.move_to(ch) takes effect only when the bot may move members, for a
\* guild member who is connected to voice, and only to an existing channel (or
\* to None); otherwise it raises.
CanMove(m, ch) ==
    /\ "move" \notin forbidden
    /\ m \in inGuild
    /\ voice[m] # NoChan
    /\ ch = NoChan \/ ch \in channels

\* ch.delete() / category.delete() take effect when the bot may manage channels
\* and the object still exists; otherwise they raise.
CanDelete(x, existing) == "delete" \notin forbidden /\ x \in existing

MovedVoice(v, m, ch) == [v EXCEPT ![m] = ch]
MovedQueue(q, v, m, ch, src) == IF v[m] = ch THEN q ELSE Append(q, Notif(m, v[m], ch, src))

\* Deleting a voice channel disconnects everyone in it.
RECURSIVE DropAll(_, _, _)
DropAll(q, v, ms) ==
    IF ms = {} THEN q
    ELSE LET m == CHOOSE x \in ms : \A y \in ms : x <= y
         IN DropAll(Append(q, Notif(m, v[m], NoChan, "delete")), v, ms \ {m})

Occupants(ch) == {m \in Members : voice[m] = ch}

\* Ids referenced anywhere, so that a new category never reuses a live id.
UsedCats ==
    categories
    \cup {CatOf(ch) : ch \in channels}
    \cup {CatOf(voice[m]) : m \in Members}
    \cup {CatOf(expected[m]) : m \in Members}
    \cup {match.category_id}
    \cup {CatOf(p[2]) : p \in SeqToSet(match.original_voice)}
    \cup {CatOf(queue[i].before) : i \in 1..Len(queue)}
    \cup {CatOf(queue[i].after) : i \in 1..Len(queue)}
    \cup {starts[c].cat : c \in DOMAIN starts}
    \cup UNION {{CatOf(p[2]) : p \in SeqToSet(starts[c].original)} : c \in DOMAIN starts}
    \cup {ends[e].cat : e \in DOMAIN ends}
    \cup UNION {{CatOf(p[2]) : p \in SeqToSet(ends[e].original)} : e \in DOMAIN ends}
    \cup {CatOf(swaps.ch1)}

FreeCats == (1..MaxCat) \ UsedCats

\* The end_match_internal runs that can be in flight together: one for the end
\* command, one for an end command issued while that one is suspended, one for
\* an approval.
EndSources == {"cmd", "again", "approve"}

\* The run an end command starts.
EndSlot == IF ends["cmd"].pc = "idle" THEN "cmd" ELSE "again"

Init ==
    /\ inGuild = Members
    /\ voice \in [Members -> {NoChan, General}]
    /\ \A m \in Bots : voice[m] = NoChan
    /\ channels = {General}
    /\ categories = {}
    /\ forbidden = {}
    /\ match = NoMatch
    /\ queue = <<>>
    /\ starts = [c \in Humans |-> IdleStart]
    /\ ends = [e \in EndSources |-> IdleEnd]
    /\ swaps = IdleSwap
    /\ views = {}
    /\ closed = {}
    /\ timer = NoTimer
    /\ expected = [m \in Members |-> NoChan]
    /\ last = Step("init", 0, "ok", {}, NoNotif, 0, <<>>)
    /\ inputs = 0

\* ------------------------------------------------------------------ environment
\* A member joins, switches or leaves a voice channel through the platform.
user_move(m, ch) ==
    /\ m \in inGuild
    /\ ch \in channels \cup {NoChan}
    /\ ch # voice[m]
    /\ Len(queue) < MaxQueue
    /\ voice' = MovedVoice(voice, m, ch)
    /\ queue' = MovedQueue(queue, voice, m, ch, "user")
    /\ last' = EnvStep
    /\ UNCHANGED <<inGuild, channels, categories, forbidden, match, starts, ends, swaps, views, expected>>
    /\ UNCHANGED timer
    /\ UNCHANGED closed

\* A connected member changes mute/deafen: a notification with before = after.
user_flag(m) ==
    /\ m \in inGuild
    /\ voice[m] # NoChan
    /\ Len(queue) < MaxQueue
    /\ queue' = Append(queue, Notif(m, voice[m], voice[m], "user"))
    /\ last' = EnvStep
    /\ UNCHANGED <<inGuild, voice, channels, categories, forbidden, match, starts, ends, swaps, views, expected>>
    /\ UNCHANGED timer
    /\ UNCHANGED closed

\* A human leaves the guild (and with it voice).
member_leave(m) ==
    /\ m \in inGuild \cap Humans
    /\ Len(queue) < MaxQueue
    /\ inGuild' = inGuild \ {m}
    /\ voice' = MovedVoice(voice, m, NoChan)
    /\ queue' = MovedQueue(queue, voice, m, NoChan, "user")
    /\ last' = EnvStep
    /\ UNCHANGED <<channels, categories, forbidden, match, starts, ends, swaps, views, expected>>
    /\ UNCHANGED timer
    /\ UNCHANGED closed

\* The voice channel outside the match is deleted by a guild admin.
delete_general ==
    /\ General \in channels
    /\ Len(queue) < MaxQueue
    /\ channels' = channels \ {General}
    /\ voice' = [m \in Members |-> IF voice[m] = General THEN NoChan ELSE voice[m]]
    /\ queue' = DropAll(queue, voice, Occupants(General))
    /\ last' = EnvStep
    /\ UNCHANGED <<inGuild, categories, forbidden, match, starts, ends, swaps, views, expected>>
    /\ UNCHANGED timer
    /\ UNCHANGED closed

\* A guild admin grants or withdraws one of the bot's permissions.
set_permission(kind) ==
    /\ forbidden' = IF kind \in forbidden THEN forbidden \ {kind} ELSE forbidden \cup {kind}
    /\ last' = EnvStep
    /\ UNCHANGED <<inGuild, voice, channels, categories, match, queue, starts, ends, swaps,
                   views, expected>>
    /\ UNCHANGED timer
    /\ UNCHANGED closed

\* ------------------------------------------------------------------ on_voice_state_update
left_voice(n) == n.before # NoChan /\ n.after = NoChan
moved_out(n) == n.before # NoChan /\ n.after # NoChan /\ n.before # n.after

\* lock_reverts without the test of match.locked.
lock_reverts_unlocked(n) ==
    /\ match.category_id \in categories
    /\ n.after # NoChan
    /\ n.after \in category_channels(match.category_id)

\* lock_reverts for members who were in no channel before, and for no others.
lock_reverts_joins(n) ==
    /\ match.locked
    /\ match.category_id \in categories
    /\ n.before = NoChan
    /\ n.after # NoChan
    /\ n.after \in category_channels(match.category_id)

\* Lines 252-257: the match is locked and the member's after-channel is one of
\* the category's voice channels.
lock_reverts(n) ==
    /\ match.locked
    /\ match.category_id \in categories
    /\ n.after # NoChan
    /\ n.after \in category_channels(match.category_id)

\* owner_left without the test of line 266 that the member is the owner.
owner_left_any_member(n) ==
    /\ left_voice(n) \/ moved_out(n)
    /\ match.category_id \in categories
    /\ ~(n.after # NoChan /\ n.after \in category_channels(match.category_id))

\* owner_left without the test of line 277 that the owner is still in a match
\* channel.
owner_left_anywhere(n) ==
    /\ n.m = match.owner_id
    /\ left_voice(n) \/ moved_out(n)
    /\ match.category_id \in categories

\* Lines 266-283: the owner left or moved, is not in a match channel, and the
\* category exists.
owner_left(n) ==
    /\ n.m = match.owner_id
    /\ left_voice(n) \/ moved_out(n)
    /\ match.category_id \in categories
    /\ ~(n.after # NoChan /\ n.after \in category_channels(match.category_id))

on_voice_state_update ==
    /\ queue # <<>>
    /\ LET n == Head(queue)
           q == Tail(queue)
           op == "on_voice_state_update"
       IN  IF match = NoMatch
           THEN /\ queue' = q
                /\ last' = Step(op, n.m, "nomatch", {}, n, 0, <<>>)
                /\ UNCHANGED <<voice, match>>
           ELSE IF lock_reverts(n)
           THEN LET ok == CanMove(n.m, n.before) IN
                /\ voice' = IF ok THEN MovedVoice(voice, n.m, n.before) ELSE voice
                /\ queue' = IF ok THEN MovedQueue(q, voice, n.m, n.before, "revert") ELSE q
                /\ last' = Step(op, n.m, "revert", {<<n.m, n.before>>}, n, match.owner_id, <<>>)
                /\ UNCHANGED match
           ELSE IF owner_left(n) /\ candidates(match.category_id) # {}
           THEN \E new_owner \in candidates(match.category_id), text_target \in BOOLEAN :
                /\ match' = [match EXCEPT !.owner_id = new_owner]
                /\ queue' = q
                /\ last' = Step(op, n.m, "failover", {}, n, match.owner_id,
                                IF text_target THEN <<match.owner_id, new_owner>> ELSE <<>>)
                /\ UNCHANGED voice
           ELSE /\ queue' = q
                /\ last' = Step(op, n.m, "none", {}, n, match.owner_id, <<>>)
                /\ UNCHANGED <<voice, match>>
    /\ UNCHANGED <<inGuild, channels, categories, forbidden, starts, ends, swaps, views, expected>>
    /\ UNCHANGED timer
    /\ UNCHANGED closed

\* ------------------------------------------------------------------ startmatch
\* parse_members (lines 347-354): mentioned ids that are guild members and not bots.
parse_members(text) == SelectSeqIn(text, inGuild \ Bots)

\* Lines 360-362: a dict, keys in first-insertion order.
RECURSIVE original_of(_, _)
original_of(ms, seen) ==
    IF ms = <<>> THEN <<>>
    ELSE IF Head(ms) \in seen THEN original_of(Tail(ms), seen)
    ELSE <<<<Head(ms), voice[Head(ms)]>>>> \o original_of(Tail(ms), seen \cup {Head(ms)})

Perms(S) == {p \in [1..Cardinality(S) -> S] : \A i, j \in 1..Cardinality(S) : p[i] = p[j] => i = j}

Assignments(t1, t2, cat) ==
    [i \in 1..(Len(t1) + Len(t2)) |->
        IF i <= Len(t1) THEN <<t1[i], team_vc_ids(cat)["team1"]>>
        ELSE <<t2[i - Len(t1)], team_vc_ids(cat)["team2"]>>]

\* Lines 322-326: the checks before the first await.
startmatch(c, mv, roster, rnd) ==
    /\ c \in inGuild
    /\ starts[c].pc = "idle"
    /\ IF match # NoMatch
       THEN /\ last' = Step("startmatch", c, "conflict", {}, NoNotif, match.owner_id, <<>>)
            /\ UNCHANGED starts
       ELSE /\ starts' = [starts EXCEPT ![c] = [IdleStart EXCEPT !.pc = "collect", !.move = mv,
                                                      !.roster = roster, !.random = rnd]]
            /\ last' = Step("startmatch", c, "accepted", {}, NoNotif, 0, <<>>)
    /\ UNCHANGED <<inGuild, voice, channels, categories, forbidden, match, queue, ends, swaps, views, expected>>
    /\ UNCHANGED timer
    /\ UNCHANGED closed

\* Lines 328-371: resolve the teams, snapshot their voice channels, create the
\* category with its three voice channels.
startmatch_collect(c) ==
    /\ starts[c].pc = "collect"
    /\ LET tk == starts[c]
       IN  IF tk.random /\ (c \notin inGuild \/ voice[c] = NoChan)
           THEN /\ starts' = [starts EXCEPT ![c] = IdleStart]
                /\ last' = Step("startmatch", c, "error", {}, NoNotif, 0, <<>>)
                /\ UNCHANGED <<channels, categories, forbidden>>
           ELSE /\ FreeCats # {}
                /\ \E shuffled \in (IF tk.random
                                    THEN Perms({m \in Members : voice[m] = voice[c] /\ ~is_bot(m)})
                                    ELSE {<<>>}) :
                   LET mid == (Len(shuffled) + 1) \div 2
                       t1 == IF tk.random THEN SubSeq(shuffled, 1, mid)
                             ELSE parse_members(tk.roster[1])
                       t2 == IF tk.random THEN SubSeq(shuffled, mid + 1, Len(shuffled))
                             ELSE parse_members(tk.roster[2])
                       cat == CHOOSE k \in FreeCats : \A j \in FreeCats : k <= j
                   IN  /\ categories' = categories \cup {cat}
                       /\ channels' = channels \cup SeqToSet(CatChannelSeq(cat))
                       /\ starts' = [starts EXCEPT ![c] =
                              [tk EXCEPT !.pc = "set", !.cat = cat, !.roster = <<t1, t2>>,
                                         !.original = original_of(t1 \o t2, {}),
                                         !.todo = Assignments(t1, t2, cat)]]
                       /\ last' = Step("startmatch", c, "created", {}, NoNotif, 0, <<>>)
    /\ UNCHANGED <<inGuild, voice, forbidden, match, queue, ends, swaps, views, expected>>
    /\ UNCHANGED timer
    /\ UNCHANGED closed

\* One move_member of lines 386-389 from the invocation's remaining
\* assignments; an exception from it ends the invocation.
StartAssign(c, tk, ex) ==
    IF tk.todo = <<>>
    THEN /\ starts' = [starts EXCEPT ![c] = IdleStart]
         /\ expected' = ex
         /\ last' = StepArg("startmatch", c, "done", {}, NoNotif, match.owner_id, <<>>, tk.pc)
         /\ UNCHANGED <<voice, queue>>
    ELSE LET m == Head(tk.todo)[1]
             ch == Head(tk.todo)[2]
         IN  LET ok == CanMove(m, ch) IN
             /\ voice' = IF ok THEN MovedVoice(voice, m, ch) ELSE voice
             /\ queue' = IF ok THEN MovedQueue(queue, voice, m, ch, "start") ELSE queue
             /\ expected' = IF ok THEN [ex EXCEPT ![m] = ch] ELSE ex
             /\ starts' = [starts EXCEPT ![c] =
                    IF ok THEN [tk EXCEPT !.pc = "move", !.todo = Tail(tk.todo)] ELSE IdleStart]
             /\ last' = StepArg("startmatch", c, IF ok THEN "moving" ELSE "error", {<<m, ch>>},
                                NoNotif, match.owner_id, <<>>, tk.pc)

\* Lines 373-387: bot.match is set, then the first member is moved.
startmatch_set(c) ==
    /\ starts[c].pc = "set"
    /\ Len(queue) < MaxQueue
    /\ match' = MatchState(c, starts[c].cat, starts[c].move, starts[c].original)
    /\ StartAssign(c, starts[c], [m \in Members |-> NoChan])
    /\ UNCHANGED <<inGuild, channels, categories, forbidden, ends, swaps, views>>
    /\ timer' = NoTimer
    /\ UNCHANGED closed

\* Lines 386-394: the next move, or the closing reply.
startmatch_move(c) ==
    /\ starts[c].pc = "move"
    /\ Len(queue) < MaxQueue
    /\ StartAssign(c, starts[c], expected)
    /\ UNCHANGED <<inGuild, channels, categories, forbidden, match, ends, swaps, views>>
    /\ UNCHANGED timer
    /\ UNCHANGED closed

\* ------------------------------------------------------------------ end_match_internal
\* Lines 173-189: an entry reaches a move_to when the member is still in the
\* guild and the recorded channel is None or still exists.
restores_unchecked(p) == p[1] \in inGuild

restores(p) == p[1] \in inGuild /\ (p[2] = NoChan \/ p[2] \in channels)

RECURSIVE end_skip(_)
end_skip(todo) ==
    IF todo = <<>> THEN <<>>
    ELSE IF restores(Head(todo)) THEN todo
    ELSE end_skip(Tail(todo))

\* The entries of todo passed over before the remainder td was reached.
Skipped(todo, td) == SubSeq(todo, 1, Len(todo) - Len(td))

\* Line 205 (and the reply after it).
EndClear(e, tk) ==
    /\ match' = NoMatch
    /\ expected' = [m \in Members |-> NoChan]
    /\ ends' = [ends EXCEPT ![e] = IdleEnd]
    /\ last' = StepArg("end_match_internal", 0, "ended", {}, NoNotif, match.owner_id, <<>>,
                       [e |-> e, skipped |-> Skipped(tk.todo, <<>>), cat |-> tk.cat,
                        cleared |-> match.category_id])
    /\ UNCHANGED <<voice, channels, categories, forbidden, queue>>

\* EndRestore with the try/except of lines 179-189 left out: a refused move_to
\* ends the run where it stands.
EndRestoreRaises(e, tk, td) ==
    LET m == Head(td)[1]
        ch == Head(td)[2]
    IN  LET ok == CanMove(m, ch) IN
        /\ voice' = IF ok THEN MovedVoice(voice, m, ch) ELSE voice
        /\ queue' = IF ok THEN MovedQueue(queue, voice, m, ch, "end") ELSE queue
        /\ ends' = [ends EXCEPT ![e] = IF ok THEN [tk EXCEPT !.todo = Tail(td)] ELSE IdleEnd]
        /\ last' = StepArg("end_match_internal", 0, "restore", {<<m, ch>>}, NoNotif,
                           match.owner_id, <<>>, [e |-> e, skipped |-> Skipped(tk.todo, td)])
        /\ UNCHANGED <<channels, categories, forbidden, match, expected>>

\* Lines 177-189: member.move_to(orig) or move_to(None); failures are swallowed.
EndRestore(e, tk, td) ==
    LET m == Head(td)[1]
        ch == Head(td)[2]
    IN  LET ok == CanMove(m, ch) IN
        /\ voice' = IF ok THEN MovedVoice(voice, m, ch) ELSE voice
        /\ queue' = IF ok THEN MovedQueue(queue, voice, m, ch, "end") ELSE queue
        /\ ends' = [ends EXCEPT ![e] = [tk EXCEPT !.todo = Tail(td)]]
        /\ last' = StepArg("end_match_internal", 0, "restore", {<<m, ch>>}, NoNotif,
                           match.owner_id, <<>>, [e |-> e, skipped |-> Skipped(tk.todo, td)])
        /\ UNCHANGED <<channels, categories, forbidden, match, expected>>

\* Lines 195-203: ch.delete for the next listed channel, then category.delete;
\* failures are swallowed.
EndDelete(e, tk, ds) ==
    IF ds # <<>>
    THEN LET ok == CanDelete(Head(ds), channels) IN
         /\ channels' = IF ok THEN channels \ {Head(ds)} ELSE channels
         /\ voice' = IF ok THEN [m \in Members |-> IF voice[m] = Head(ds) THEN NoChan ELSE voice[m]]
                     ELSE voice
         /\ queue' = IF ok THEN DropAll(queue, voice, Occupants(Head(ds))) ELSE queue
         /\ ends' = [ends EXCEPT ![e] = [tk EXCEPT !.pc = "del", !.todo = <<>>, !.dels = Tail(ds)]]
         /\ last' = StepArg("end_match_internal", 0, "delete", {}, NoNotif, match.owner_id,
                            <<>>, [e |-> e, skipped |-> Skipped(tk.todo, <<>>)])
         /\ UNCHANGED <<categories, forbidden, match, expected>>
    ELSE LET ok == CanDelete(tk.cat, categories) IN
         /\ categories' = IF ok THEN categories \ {tk.cat} ELSE categories
         /\ ends' = [ends EXCEPT ![e] = [tk EXCEPT !.pc = "finish", !.todo = <<>>, !.dels = <<>>]]
         /\ last' = StepArg("end_match_internal", 0, "delete", {}, NoNotif, match.owner_id,
                            <<>>, [e |-> e, skipped |-> Skipped(tk.todo, <<>>)])
         /\ UNCHANGED <<voice, channels, forbidden, queue, match, expected>>

\* One resumption of end_match_internal: from where it last awaited up to its
\* next await.
end_match_internal(e) ==
    /\ ends[e].pc # "idle"
    /\ LET tk == IF ends[e].pc = "begin"
                 THEN [ends[e] EXCEPT !.pc = "loop", !.cat = match.category_id,
                                      !.original = match.original_voice,
                                      !.todo = match.original_voice]
                 ELSE ends[e]
       IN  IF ends[e].pc = "begin" /\ match = NoMatch
           THEN /\ ends' = [ends EXCEPT ![e] = IdleEnd]
                /\ last' = Step("end_match_internal", 0, "nomatch", {}, NoNotif, 0, <<>>)
                /\ UNCHANGED <<voice, channels, categories, forbidden, queue, match, expected>>
           ELSE IF tk.pc = "loop"
           THEN IF end_skip(tk.todo) # <<>>
                THEN EndRestore(e, tk, end_skip(tk.todo))
                ELSE IF tk.cat \notin categories
                THEN EndClear(e, tk)
                ELSE EndDelete(e, tk, SelectSeqIn(CatChannelSeq(tk.cat), channels))
           ELSE IF tk.pc = "del"
           THEN EndDelete(e, tk, tk.dels)
           ELSE EndClear(e, tk)
    /\ UNCHANGED <<inGuild, forbidden, starts, swaps, views>>
    /\ timer' = IF ends[e].pc = "begin" /\ match # NoMatch THEN cancel_timer(timer) ELSE timer
    /\ closed' = closed \cap channels'

\* ------------------------------------------------------------------ commands
is_owner_anyone(user_id) == match # NoMatch

is_owner(user_id) == match # NoMatch /\ match.owner_id = user_id

Reject(op, c, res) ==
    /\ last' = Step(op, c, res, {}, NoNotif, match.owner_id, <<>>)
    /\ UNCHANGED <<inGuild, voice, channels, categories, forbidden, match, queue, starts, ends,
                   swaps, views, expected>>

\* endmatch without the owner test of line 405: every caller's request runs End.
endmatch_unchecked(c) ==
    /\ c \in inGuild
    /\ IF match = NoMatch
       THEN Reject("endmatch", c, "nomatch")
       ELSE /\ ends[EndSlot].pc = "idle"
            /\ ends' = [ends EXCEPT ![EndSlot] = [IdleEnd EXCEPT !.pc = "begin"]]
            /\ last' = Step("endmatch", c, "ending", {}, NoNotif, match.owner_id, <<>>)
            /\ UNCHANGED <<inGuild, voice, channels, categories, forbidden, match, queue, starts,
                           swaps, views, expected>>
    /\ UNCHANGED timer
    /\ UNCHANGED closed

\* Lines 398-423.
endmatch(c) ==
    /\ c \in inGuild
    /\ IF match = NoMatch
       THEN Reject("endmatch", c, "nomatch")
       ELSE IF c = match.owner_id
       THEN /\ ends[EndSlot].pc = "idle"
            /\ ends' = [ends EXCEPT ![EndSlot] = [IdleEnd EXCEPT !.pc = "begin"]]
            /\ last' = Step("endmatch", c, "ending", {}, NoNotif, match.owner_id, <<>>)
            /\ UNCHANGED <<inGuild, voice, channels, categories, forbidden, match, queue, starts,
                           swaps, views, expected>>
       ELSE /\ views' = IF match.owner_id \in inGuild
                        THEN views \cup {[owner_id |-> match.owner_id, requester_id |-> c,
                                       issued_for |-> match.category_id]}
                        ELSE views
            /\ last' = Step("endmatch", c, "requested", {}, NoNotif, match.owner_id, <<>>)
            /\ UNCHANGED <<inGuild, voice, channels, categories, forbidden, match, queue, starts,
                           ends, swaps, expected>>
    /\ UNCHANGED timer
    /\ UNCHANGED closed

\* EndMatchApprovalView.approve (lines 138-155), clicked by the view's owner.
\* guild is interaction.guild (lines 144-146): the view is sent in a direct message,
\* and whether the platform attaches a guild to the button's interaction there
\* is left open.
approve(v, guild) ==
    /\ v \in views
    /\ v.owner_id \in inGuild
    /\ IF ~guild
       THEN Reject("approve", v.owner_id, "noguild")
       ELSE IF match = NoMatch
       THEN Reject("approve", v.owner_id, "nomatch")
       ELSE IF match.owner_id # v.owner_id
       THEN Reject("approve", v.owner_id, "notowner")
       ELSE /\ ends["approve"].pc = "idle"
            /\ ends' = [ends EXCEPT !["approve"] = [IdleEnd EXCEPT !.pc = "begin"]]
            /\ views' = views \ {v}
            /\ last' = StepArg("approve", v.owner_id, "ending", {}, NoNotif, match.owner_id, <<>>,
                               v.issued_for)
            /\ UNCHANGED <<inGuild, voice, channels, categories, forbidden, match, queue, starts,
                           swaps, expected>>
    /\ UNCHANGED timer
    /\ UNCHANGED closed

\* EndMatchApprovalView.deny (lines 157-160), or the view's timeout.
deny(v) ==
    /\ v \in views
    /\ views' = views \ {v}
    /\ last' = Step("deny", v.owner_id, "denied", {}, NoNotif, match.owner_id, <<>>)
    /\ UNCHANGED <<inGuild, voice, channels, categories, forbidden, match, queue, starts, ends,
                   swaps, expected>>
    /\ UNCHANGED timer
    /\ UNCHANGED closed

\* Lines 432-464.  user = 0 is the omitted argument.
move_cmd(c, team, user) ==
    /\ c \in inGuild
    /\ Len(queue) < MaxQueue
    /\ LET target == team_vc_ids(match.category_id)[team]
           member == IF match.move_mode = "allow" THEN c ELSE user
       IN  IF match = NoMatch
           THEN Reject("move", c, "nomatch")
           ELSE IF match.move_mode # "allow" /\ ~is_owner(c)
           THEN Reject("move", c, "notowner")
           ELSE IF match.move_mode # "allow" /\ user = 0
           THEN Reject("move", c, "nouser")
           ELSE IF target \notin channels
           THEN Reject("move", c, "notarget")
           ELSE LET ok == CanMove(member, target) IN
                /\ voice' = IF ok THEN MovedVoice(voice, member, target) ELSE voice
                /\ queue' = IF ok THEN MovedQueue(queue, voice, member, target,
                                              IF is_owner(c) THEN "move" ELSE "selfmove") ELSE queue
                /\ expected' = IF ok THEN [expected EXCEPT ![member] = target] ELSE expected
                /\ last' = StepArg("move", c, IF ok THEN "moved" ELSE "error",
                                   {<<member, target>>}, NoNotif, match.owner_id, <<>>,
                                   <<team, user>>)
                /\ UNCHANGED <<inGuild, channels, categories, forbidden, match, starts, ends,
                               swaps, views>>
    /\ UNCHANGED timer
    /\ UNCHANGED closed

\* team_of (lines 476-482).
team_of(m) ==
    IF voice[m] = team_vc_ids(match.category_id)["team1"] THEN "team1"
    ELSE IF voice[m] = team_vc_ids(match.category_id)["team2"] THEN "team2"
    ELSE "none"

\* Lines 470-495: the checks and the first move_member.
swap(c, user1, user2) ==
    /\ c \in inGuild
    /\ swaps.pc = "idle"
    /\ Len(queue) < MaxQueue
    /\ IF match = NoMatch
       THEN Reject("swap", c, "nomatch")
       ELSE IF ~is_owner(c)
       THEN Reject("swap", c, "notowner")
       ELSE IF team_of(user1) = "none" \/ team_of(user2) = "none" \/ team_of(user1) = team_of(user2)
       THEN /\ last' = StepArg("swap", c, "invalid", {}, NoNotif, match.owner_id, <<>>,
                               <<user1, user2, voice[user1], voice[user2]>>)
            /\ UNCHANGED <<inGuild, voice, channels, categories, forbidden, match, queue, starts,
                           ends, swaps, views, expected>>
       ELSE LET ch1 == team_vc_ids(match.category_id)[team_of(user1)]
                ch2 == team_vc_ids(match.category_id)[team_of(user2)]
            IN  LET ok == CanMove(user1, ch2) IN
                /\ voice' = IF ok THEN MovedVoice(voice, user1, ch2) ELSE voice
                /\ queue' = IF ok THEN MovedQueue(queue, voice, user1, ch2, "swap") ELSE queue
                /\ expected' = IF ok THEN [expected EXCEPT ![user1] = ch2] ELSE expected
                /\ swaps' = IF ok THEN [pc |-> "second", who |-> c, user1 |-> user1,
                                        user2 |-> user2, ch1 |-> ch1, ch2 |-> ch2]
                            ELSE IdleSwap
                /\ last' = StepArg("swap", c, IF ok THEN "first" ELSE "error", {<<user1, ch2>>},
                                   NoNotif, match.owner_id, <<>>, <<user1, user2, ch1, ch2>>)
                /\ UNCHANGED <<inGuild, channels, categories, forbidden, match, starts, ends, views>>
    /\ UNCHANGED timer
    /\ UNCHANGED closed

\* Lines 496-497: the second move_member and the reply.
swap_second ==
    /\ swaps.pc = "second"
    /\ Len(queue) < MaxQueue
    /\ LET ok == CanMove(swaps.user2, swaps.ch1) IN
        /\ voice' = IF ok THEN MovedVoice(voice, swaps.user2, swaps.ch1) ELSE voice
        /\ queue' = IF ok THEN MovedQueue(queue, voice, swaps.user2, swaps.ch1, "swap") ELSE queue
        /\ expected' = IF ok /\ match # NoMatch THEN [expected EXCEPT ![swaps.user2] = swaps.ch1]
                       ELSE expected
        /\ last' = StepArg("swap", swaps.who, IF ok THEN "swapped" ELSE "partial",
                           {<<swaps.user2, swaps.ch1>>}, NoNotif, match.owner_id, <<>>,
                           <<swaps.user1, swaps.user2, swaps.ch1, swaps.ch2>>)
    /\ swaps' = IdleSwap
    /\ UNCHANGED <<inGuild, channels, categories, forbidden, match, starts, ends, views>>
    /\ UNCHANGED timer
    /\ UNCHANGED closed

\* ch.edit(overwrites=...) takes effect when the bot may manage channels.
CanEdit == "delete" \notin forbidden

\* The channels set_team_overwrites is given: the lobby and the team channels
\* that still exist (lines 543-548).
lock_targets(cat) == {ch \in SeqToSet(CatChannelSeq(cat)) : ch \in channels}

\* SetLocked without the ensure_owner of lines 538 and 556.
SetLocked_unowned(op, c, locked) ==
    /\ c \in inGuild
    /\ IF match = NoMatch
       THEN Reject(op, c, "nomatch") /\ UNCHANGED closed
       ELSE LET ok == /\ match.category_id \in categories
                      /\ lobby_vc_id(match.category_id) \in channels
                      /\ CanEdit
            IN  /\ match' = [match EXCEPT !.locked = locked]
                /\ closed' = IF ~ok THEN closed
                             ELSE IF locked THEN closed \cup lock_targets(match.category_id)
                             ELSE closed \ lock_targets(match.category_id)
                /\ last' = Step(op, c, IF ok THEN "ok" ELSE "error", {}, NoNotif,
                                match.owner_id, <<>>)
                /\ UNCHANGED <<inGuild, voice, channels, categories, forbidden, queue, starts,
                               ends, swaps, views, expected>>
    /\ UNCHANGED timer

\* Lines 536-550 (locked = TRUE) and 554-568 (locked = FALSE): the flag is
\* written before the channels are looked up and their overwrites edited
\* (set_team_overwrites, lines 89-107).
SetLocked(op, c, locked) ==
    /\ c \in inGuild
    /\ IF match = NoMatch
       THEN Reject(op, c, "nomatch") /\ UNCHANGED closed
       ELSE IF ~is_owner(c)
       THEN Reject(op, c, "notowner") /\ UNCHANGED closed
       ELSE LET ok == /\ match.category_id \in categories
                      /\ lobby_vc_id(match.category_id) \in channels
                      /\ CanEdit
            IN  /\ match' = [match EXCEPT !.locked = locked]
                /\ closed' = IF ~ok THEN closed
                             ELSE IF locked THEN closed \cup lock_targets(match.category_id)
                             ELSE closed \ lock_targets(match.category_id)
                /\ last' = Step(op, c, IF ok THEN "ok" ELSE "error", {}, NoNotif,
                                match.owner_id, <<>>)
                /\ UNCHANGED <<inGuild, voice, channels, categories, forbidden, queue, starts,
                               ends, swaps, views, expected>>
    /\ UNCHANGED timer

match_lock(c) == SetLocked("lock", c, TRUE)
match_unlock(c) == SetLocked("unlock", c, FALSE)

\* in_match without the test that the channel belongs to the match's category.
in_match_anywhere(user) == voice[user] # NoChan

\* Lines 586-587: the target is connected to a voice channel of the category.
in_match(user) == voice[user] # NoChan /\ voice[user] \in category_channels(match.category_id)

\* Lines 571-601.
match_transfer(c, user) ==
    /\ c \in inGuild
    /\ LET res == IF match = NoMatch THEN "nomatch"
                  ELSE IF ~is_owner(c) THEN "notowner"
                  ELSE IF is_bot(user) THEN "bot"
                  ELSE IF match.category_id \notin categories THEN "nocategory"
                  ELSE IF ~in_match(user) THEN "notinmatch"
                  ELSE "ok"
       IN /\ match' = IF res = "ok" THEN [match EXCEPT !.owner_id = user] ELSE match
          /\ last' = StepArg("transfer", c, res, {}, NoNotif, match.owner_id, <<>>, <<user>>)
    /\ UNCHANGED <<inGuild, voice, channels, categories, forbidden, queue, starts, ends,
                   swaps, views, expected>>
    /\ UNCHANGED timer
    /\ UNCHANGED closed

\* A command that replies and leaves the guild and the match record as they are.
Reply(op, c, res) == Reject(op, c, res)

\* Lines 612-657.  duration is "none" (omitted), "bad" (parse_duration raises)
\* or "ok".
match_timer(c, action, duration, auto_end) ==
    /\ c \in inGuild
    /\ IF match = NoMatch
       THEN Reject("timer", c, "nomatch") /\ UNCHANGED timer
       ELSE IF ~is_owner(c)
       THEN Reject("timer", c, "notowner") /\ UNCHANGED timer
       ELSE IF action \notin {"start", "stop"}
       THEN Reject("timer", c, "badaction") /\ UNCHANGED timer
       ELSE IF action = "stop"
       THEN Reply("timer", c, "stopped") /\ timer' = NoTimer
       ELSE IF duration # "ok"
       THEN Reject("timer", c, "badduration") /\ UNCHANGED timer
       ELSE Reply("timer", c, "started") /\ timer' = [pc |-> "created", auto_end |-> auto_end]
    /\ UNCHANGED closed

\* The first step of run() (line 639): now_utc() + discord.utils.utcnow() adds
\* two datetime values, which raises TypeError; run() catches only
\* asyncio.CancelledError, so the task ends there.
timer_run ==
    /\ timer.pc = "created"
    /\ timer' = [timer EXCEPT !.pc = "raised"]
    /\ last' = Step("timer_run", 0, "raised", {}, NoNotif, match.owner_id, <<>>)
    /\ UNCHANGED <<inGuild, voice, channels, categories, forbidden, match, queue, starts, ends,
                   swaps, views, expected>>
    /\ UNCHANGED closed

\* ------------------------------------------------------------------ specifications
MaxInputs == 3

Quiet ==
    /\ \A c \in Humans : starts[c].pc = "idle"
    /\ \A e \in EndSources : ends[e].pc = "idle"
    /\ swaps.pc = "idle"

\* A command or a platform event arrives while no command is suspended at an await.
Input(A) == Quiet /\ inputs < MaxInputs /\ inputs' = inputs + 1 /\ A
\* A suspended handler resumes, or the next notification is dispatched.
Resume(A) == A /\ UNCHANGED inputs

Next ==
    \/ \E m \in Members, ch \in 0..(4 * MaxCat + 2) : Input(user_move(m, ch))
    \/ \E kind \in {"move", "delete"} : Input(set_permission(kind))
    \/ \E c \in Humans, mv \in Modes, rnd \in BOOLEAN :
          \E roster \in (IF rnd THEN {<<<<>>, <<>>>>} ELSE Rosters) :
             Input(startmatch(c, mv, roster, rnd))
    \/ \E c \in Humans : Input(endmatch(c))
    \/ \E v \in views, guild \in BOOLEAN : Input(approve(v, guild))
    \/ \E v \in views : Input(deny(v))
    \/ \E c \in Humans, team \in Teams, user \in Members \cup {0} : Input(move_cmd(c, team, user))
    \/ \E c \in Humans, user1 \in Members, user2 \in Members : Input(swap(c, user1, user2))
    \/ \E c \in Humans : Input(match_lock(c))
    \/ \E c \in Humans : Input(match_unlock(c))
    \/ \E c \in Humans, user \in Members : Input(match_transfer(c, user))
    \/ \E c \in Humans, action \in {"start", "stop", "pause"}, duration \in {"none", "bad", "ok"},
          auto_end \in BOOLEAN : Input(match_timer(c, action, duration, auto_end))
    \/ Resume(timer_run)
    \/ \E c \in Humans : Resume(startmatch_collect(c))
    \/ \E c \in Humans : Resume(startmatch_set(c))
    \/ \E c \in Humans : Resume(startmatch_move(c))
    \/ \E e \in EndSources : Resume(end_match_internal(e))
    \/ Resume(swap_second)
    \/ Resume(on_voice_state_update)

Spec == Init /\ [][Next]_vars

\* Commands and platform events arrive at any time, also while Start or End
\* handlers are suspended at an await.
Arrive(A) == inputs < MaxInputs /\ inputs' = inputs + 1 /\ A

NextAsync ==
    \/ \E m \in Humans, ch \in 0..(4 * MaxCat + 2) : Arrive(user_move(m, ch))
    \/ \E m \in Humans : Arrive(member_leave(m))
    \/ Arrive(delete_general)
    \/ \E kind \in {"move", "delete"} : Arrive(set_permission(kind))
    \/ \E c \in Humans, mv \in Modes : Arrive(startmatch(c, mv, <<<<1>>, <<2>>>>, FALSE))
    \/ \E c \in Humans : Arrive(endmatch(c))
    \/ \E v \in views, guild \in BOOLEAN : Arrive(approve(v, guild))
    \/ \E c \in Humans : Arrive(swap(c, 1, 2))
    \/ Resume(swap_second)
    \/ \E c \in Humans : Resume(startmatch_collect(c))
    \/ \E c \in Humans : Resume(startmatch_set(c))
    \/ \E c \in Humans : Resume(startmatch_move(c))
    \/ \E e \in EndSources : Resume(end_match_internal(e))
    \/ Resume(on_voice_state_update)

SpecAsync == Init /\ [][NextAsync]_vars

\* Start, end and approval only, arriving at any time, over a history long
\* enough for a second match to follow the first.
MaxLater == 5

ArriveLater(A) == inputs < MaxLater /\ inputs' = inputs + 1 /\ A

NextLater ==
    \/ ArriveLater(startmatch(1, "allow", <<<<1>>, <<2>>>>, FALSE))
    \/ \E c \in Humans : ArriveLater(endmatch(c))
    \/ \E v \in views, guild \in BOOLEAN : ArriveLater(approve(v, guild))
    \/ \E c \in Humans : Resume(startmatch_collect(c))
    \/ \E c \in Humans : Resume(startmatch_set(c))
    \/ \E c \in Humans : Resume(startmatch_move(c))
    \/ \E e \in EndSources : Resume(end_match_internal(e))
    \/ Resume(on_voice_state_update)

SpecLater == Init /\ [][NextLater]_vars

\* ------------------------------------------------------------------ properties
\* The participants of the active match: the keys of original_voice.
Participants == {p[1] : p \in SeqToSet(match.original_voice)}
MatchZones == category_channels(match.category_id)
Handled == last.op = "on_voice_state_update"
\* No later notification about member m is still waiting.
NoPending(m) == \A i \in 1..Len(queue) : queue[i].m # m

\* C1: under the deny policy, when a participant who is not the owner moves
\* themselves out of their assigned team zone into another zone, the handler of
\* that notification issues exactly one move, back to the assigned zone, and the
\* participant is in that zone afterwards; nobody else is moved.
C1_DenyCorrectiveMove ==
    (/\ Handled
     /\ last.n.src = "user"
     /\ match # NoMatch
     /\ match.move_mode = "deny"
     /\ last.n.m # last.old
     /\ expected[last.n.m] # NoChan
     /\ last.n.before = expected[last.n.m]
     /\ last.n.after # NoChan
     /\ last.n.after # last.n.before
     /\ NoPending(last.n.m))
    => /\ last.issued = {<<last.n.m, expected[last.n.m]>>}
       /\ voice[last.n.m] = expected[last.n.m]

\* C2: handling the notification of a move the bot itself issued (start
\* assignment, revert, directed move, swap, end restore) issues no further move.
C2_NoRollbackLoop ==
    (Handled /\ last.n.src \in EngineSrcs) => last.issued = {}

\* The handled notification shows the owner leaving the match's zones, and the
\* owner is outside them.
OwnerDeparted ==
    /\ Handled
    /\ match # NoMatch
    /\ match.category_id \in categories
    /\ last.n.m = last.old
    /\ last.n.before \in SeqToSet(CatChannelSeq(match.category_id))
    /\ last.n.after \notin SeqToSet(CatChannelSeq(match.category_id))
    /\ voice[last.old] \notin MatchZones

\* The non-bot members inside the match's zones, the departed owner aside.
Remaining == {m \in Humans \ {last.old} : voice[m] \in MatchZones}

\* C5 (as claimed): when the owner has left the match's zones and N >= 1
\* non-bot members are inside them, exactly one of those becomes the owner, and
\* the old and the new owner are announced.
C5_FailoverAnnounced ==
    (OwnerDeparted /\ Remaining # {})
    => /\ last.res = "failover"
       /\ match.owner_id \in Remaining
       /\ last.ann = <<last.old, match.owner_id>>

\* C5 (amended): when the owner has left the match's zones and N >= 1 non-bot
\* members are inside them, exactly one of those N becomes the owner (not a bot, inside
\* the match's zones, not the departed owner); the announcement naming the old
\* and the new owner is sent when the guild has a system or text channel.
C5_Failover ==
    (OwnerDeparted /\ Remaining # {})
    => /\ last.res = "failover"
       /\ match.owner_id \in Remaining
       /\ ~is_bot(match.owner_id)
       /\ voice[match.owner_id] \in MatchZones
       /\ match.owner_id # last.old
       /\ last.ann \in {<<last.old, match.owner_id>>, <<>>}

C5_Witness ==
    /\ OwnerDeparted
    /\ Remaining # {}
    /\ \E b \in Bots : voice[b] \in MatchZones
    /\ last.res = "failover"
    /\ last.ann = <<last.old, match.owner_id>>

\* C6 (as claimed): when the owner has left the match's zones and no non-bot
\* member is inside them, the match stays active and the departed member is no
\* longer its owner.
C6_OwnerUnset ==
    (OwnerDeparted /\ Remaining = {})
    => /\ match # NoMatch
       /\ match.owner_id # last.old

\* C6 (amended): when the owner has left the match's zones and no non-bot member
\* is inside them, the handler changes nothing: the match stays active with
\* the departed member still its owner, no move is issued and no error occurs.
C6_OwnerKept ==
    (OwnerDeparted /\ Remaining = {})
    => /\ match # NoMatch
       /\ match.owner_id = last.old
       /\ last.res = "none"
       /\ last.issued = {}
       /\ last.ann = <<>>

C6_Witness ==
    /\ OwnerDeparted
    /\ Remaining = {}
    /\ \E m \in Members \ {last.old} : voice[m] # NoChan
    /\ match.owner_id = last.old

\* A participant's own move from one zone of the match to another.
VoluntaryZoneChange ==
    /\ Handled
    /\ last.n.src = "user"
    /\ match # NoMatch
    /\ last.n.m \in Participants
    /\ last.n.before \in MatchZones
    /\ last.n.after \in MatchZones
    /\ last.n.before # last.n.after

\* C7 (as claimed): under the allow policy a participant's own move between
\* zones of the match is never reverted, whatever the locked flag, and the
\* participant stays in the new zone.
C7_AllowAcceptsMove ==
    (VoluntaryZoneChange /\ match.move_mode = "allow")
    => /\ last.issued = {}
       /\ NoPending(last.n.m) => voice[last.n.m] = last.n.after

\* C7 (amended): under the allow policy a participant's own move between zones
\* of the match is not reverted while the match is unlocked, and the
\* participant stays in the new zone; while the match is locked the handler
\* issues one move of the participant back to the zone they came from.
C7_AllowAcceptsMoveUnlessLocked ==
    (VoluntaryZoneChange /\ match.move_mode = "allow")
    => IF match.locked
       THEN last.issued = {<<last.n.m, last.n.before>>}
       ELSE /\ last.issued = {}
            /\ NoPending(last.n.m) => voice[last.n.m] = last.n.after

C7_Witness ==
    /\ VoluntaryZoneChange
    /\ match.move_mode = "allow"
    /\ ~match.locked
    /\ last.n.m # match.owner_id
    /\ voice[last.n.m] = last.n.after

\* C9 (as claimed): under either policy a move command from a caller who is not
\* the owner is rejected and moves nobody.
C9_MoveOwnerOnly ==
    (last.op = "move" /\ last.who # last.old)
    => /\ last.res \in {"nomatch", "notowner"}
       /\ last.issued = {}

\* C9 (amended): under the deny policy a move command from a caller who is not
\* the owner is rejected and moves nobody; under the allow policy it moves the
\* caller, and only the caller, to the named team's zone.
C9_MoveOwnerOnlyUnderDeny ==
    (last.op = "move" /\ last.who # last.old)
    => \/ last.res \in {"nomatch", "notowner", "notarget"} /\ last.issued = {}
       \/ /\ match.move_mode = "allow"
          /\ \E t \in Teams :
                /\ last.issued = {<<last.who, team_vc_ids(match.category_id)[t]>>}
                /\ last.res = "moved" => voice[last.who] = team_vc_ids(match.category_id)[t]

C9_Witness ==
    /\ last.op = "move"
    /\ last.who # last.old
    /\ match.move_mode = "deny"
    /\ last.res = "notowner"
    /\ \E m \in Participants : voice[m] \in MatchZones

\* C10: after the owner directs participant P to team T, P is in T's zone, and
\* handling the notification of a move the owner directed (move command or
\* swap) issues no move, whatever the policy and the locked flag.
C10_DirectedMoveAuthoritative ==
    /\ (last.op = "move" /\ last.who = last.old /\ last.res = "moved" /\ last.arg[2] # 0)
       => voice[last.arg[2]] = team_vc_ids(match.category_id)[last.arg[1]]
    /\ (Handled /\ last.n.src \in {"move", "swap"}) => last.issued = {}

\* An End step and the run it belongs to.
EndStep(res) == last.op = "end_match_internal" /\ last.res = res

\* C3 (as claimed): for a participant whose recorded original is "none", End
\* issues no move, so End never takes such a participant out of the zone they
\* are in.
C3_NoneUntouched ==
    (EndStep("restore") /\ \E m \in Members : last.issued = {<<m, NoChan>>})
    => ~(/\ queue # <<>>
         /\ queue[Len(queue)].src = "end"
         /\ queue[Len(queue)].after = NoChan
         /\ last.issued = {<<queue[Len(queue)].m, NoChan>>})

\* C3 (amended): every move End issues is for an entry of the snapshot taken at
\* start whose member is still in the guild: back to exactly the recorded zone
\* when that zone still exists, out of voice when the recorded original is
\* "none"; an accepted move leaves the member there; the entries End passes
\* over are those whose member left the guild or whose recorded zone is gone.
C3_EndRestores ==
    /\ EndStep("restore")
       => \E p \in SeqToSet(ends[last.arg.e].original) :
             /\ last.issued = {<<p[1], p[2]>>}
             /\ p[1] \in inGuild
             /\ p[2] = NoChan \/ p[2] \in channels
             /\ "move" \notin forbidden => voice[p[1]] \in {p[2], NoChan}
    /\ (EndStep("restore") \/ EndStep("delete") \/ EndStep("ended"))
       => \A i \in 1..Len(last.arg.skipped) :
             \/ last.arg.skipped[i][1] \notin inGuild
             \/ /\ last.arg.skipped[i][2] # NoChan
                /\ last.arg.skipped[i][2] \notin channels

C3_Witness ==
    /\ EndStep("restore")
    /\ last.arg.skipped # <<>>
    /\ \E m \in Members :
          /\ last.issued = {<<m, General>>}
          /\ voice[m] = General
          /\ queue # <<>>
          /\ queue[Len(queue)] = Notif(m, team_vc_ids(ends[last.arg.e].cat)["team2"], General, "end")

\* C4: End runs to completion: a restore or a deletion, refused or not, leaves
\* the run going on to the next entry; when End returns there is no active
\* match record; and a Start is refused with a conflict only while a match
\* record exists.
C4_EndCompletes ==
    /\ (EndStep("restore") \/ EndStep("delete"))
       => ends[last.arg.e].pc \in {"loop", "del", "finish"}
    /\ EndStep("ended") => match = NoMatch /\ ends[last.arg.e].pc = "idle"
    /\ (last.op = "startmatch" /\ last.res = "conflict") => last.old # 0
    /\ (last.op = "startmatch" /\ last.res = "accepted") => match = NoMatch

C4_Witness ==
    /\ EndStep("ended")
    /\ forbidden = {"delete"}
    /\ categories # {}
    /\ match = NoMatch

\* C8: over any interleaving of command handlers, a Start that installs its
\* match record and goes on to place its members does so only when no match is
\* active.
C8_SingleMatch ==
    (last.op = "startmatch" /\ last.arg = "set" /\ last.res = "moving") => last.old = 0

\* C11: a swap whose arguments are refused moves no one, and a swap never ends
\* with the first participant moved and the second not: when it has moved
\* user1 into user2's team zone it also moves user2 into user1's.
C11_SwapExchanges ==
    /\ (last.op = "swap" /\ last.res \in {"nomatch", "notowner", "invalid"}) => last.issued = {}
    /\ last.op = "swap" => last.res # "partial"
    /\ (last.op = "swap" /\ last.res = "swapped") => voice[last.arg[2]] = last.arg[3]

\* C12: an end request from a caller who is not the owner changes nothing of
\* the match; a denial or a timeout of the request changes nothing either; an
\* End run begins only with the owner's own end command or with the owner's
\* approval of a request; and the match record is cleared only by an End run.
C12_ApprovalNeeded ==
    [][/\ (last'.op = "endmatch" /\ last'.who # match.owner_id)
          => UNCHANGED <<match, voice, channels, categories, ends, queue, inGuild, expected>>
       /\ last'.op = "deny"
          => UNCHANGED <<match, voice, channels, categories, ends, queue, inGuild, expected>>
       /\ (ends["cmd"].pc = "idle" /\ ends'["cmd"].pc # "idle")
          => last'.op = "endmatch" /\ last'.who = match.owner_id /\ match # NoMatch
       /\ (ends["approve"].pc = "idle" /\ ends'["approve"].pc # "idle")
          => last'.op = "approve" /\ last'.who = match.owner_id /\ match # NoMatch
       /\ (match # NoMatch /\ match' = NoMatch) => last'.op = "end_match_internal"
      ]_vars

C12_Witness ==
    /\ last.op = "deny"
    /\ last.who = match.owner_id
    /\ match # NoMatch
    /\ views = {}
    /\ \A e \in EndSources : ends[e].pc = "idle"

\* C13: when the task of a timer started with auto_end is over without having
\* been cancelled (stopped, replaced or torn down), the match has been ended or
\* an End run is under way.
C13_TimerAutoEnds ==
    (timer.pc = "raised" /\ timer.auto_end)
    => \/ match = NoMatch
       \/ \E e \in EndSources : ends[e].pc # "idle"

\* The handled notification is about the owner and its after-zone is one of the
\* match's zones.
OwnerInside ==
    /\ Handled
    /\ match # NoMatch
    /\ last.n.m = last.old
    /\ last.n.after \in MatchZones

\* C14 (as claimed): for a notification in which the owner's after-zone is one
\* of the match's zones the handler issues no move of the owner, whatever the
\* policy and the locked flag.
C14_OwnerExempt ==
    OwnerInside => \A mv \in last.issued : mv[1] # last.old

\* C14 (amended): for a notification in which the owner's after-zone is one of
\* the match's zones, the handler issues no move and keeps the owner while the
\* match is unlocked, whatever the policy; while the match is locked it issues
\* one move of the owner back to the before-zone, as for everyone else.
C14_OwnerExemptUnlessLocked ==
    OwnerInside
    => /\ match.owner_id = last.old
       /\ IF match.locked
          THEN last.issued = {<<last.old, last.n.before>>}
          ELSE last.issued = {}

C14_Witness ==
    /\ OwnerInside
    /\ ~match.locked
    /\ match.move_mode = "deny"
    /\ last.n.src = "user"
    /\ last.n.before \in MatchZones
    /\ last.n.before # last.n.after
    /\ \E m \in Humans \ {last.old} : voice[m] \in MatchZones
    /\ last.issued = {}

\* The handled notification is a member who is neither a participant nor the
\* owner entering one of the match's zones from outside them.
WalkIn ==
    /\ Handled
    /\ last.n.src = "user"
    /\ match # NoMatch
    /\ last.n.m \notin Participants
    /\ last.n.m # last.old
    /\ last.n.after \in MatchZones
    /\ last.n.before \notin MatchZones

\* C15: while the match is locked, the handler moves a walk-in back to the zone
\* they came from, or disconnects them if they came from no zone (the member is
\* there once the platform accepts the move); while the match is unlocked it
\* issues no move for a walk-in.
C15_LockdownWalkIns ==
    WalkIn
    => IF match.locked
       THEN /\ last.issued = {<<last.n.m, last.n.before>>}
            /\ ("move" \notin forbidden /\ last.n.m \in inGuild
                /\ (last.n.before = NoChan \/ last.n.before \in channels))
               => voice[last.n.m] \in {last.n.before, NoChan}
       ELSE /\ last.issued = {}
            /\ NoPending(last.n.m) => voice[last.n.m] = last.n.after

C15_Witness ==
    /\ WalkIn
    /\ match.locked
    /\ last.n.before = General
    /\ last.issued = {<<last.n.m, General>>}
    /\ voice[last.n.m] = General
    /\ queue # <<>>
    /\ queue[Len(queue)] = Notif(last.n.m, last.n.after, General, "revert")

\* C16: a lock or unlock step issues no move and changes nothing but the locked
\* flag and the channels' connect overwrites: for the owner the flag becomes
\* true (lock) or false (unlock) with owner, policy, zone ids, original
\* placements and timer as they were, and an accepted edit closes or opens
\* exactly the match's channels; for anyone else the step is rejected and
\* changes nothing.
C16_LockFrame ==
    [][last'.op \in {"lock", "unlock"}
       => /\ last'.issued = {}
          /\ UNCHANGED <<inGuild, voice, channels, categories, queue, starts, ends, swaps, views,
                         timer, expected>>
          /\ IF match # NoMatch /\ last'.who = match.owner_id
             THEN /\ match' = [match EXCEPT !.locked = (last'.op = "lock")]
                  /\ last'.res \in {"ok", "error"}
                  /\ last'.res = "error" => closed' = closed
                  /\ last'.res = "ok"
                     => /\ MatchZones \cap closed' = IF last'.op = "lock" THEN MatchZones ELSE {}
                        /\ closed' \ MatchZones = closed \ MatchZones
             ELSE /\ last'.res \in {"nomatch", "notowner"}
                  /\ UNCHANGED <<match, closed>>
      ]_vars

C16_Witness ==
    /\ last.op = "lock"
    /\ last.res = "ok"
    /\ match.locked
    /\ timer.pc # "none"
    /\ closed = MatchZones
    /\ \E m \in Humans : voice[m] \in MatchZones

C19_TransferReplacesOwner ==
    last.op = "transfer" =>
        /\ last.res = "ok" <=> /\ match # NoMatch
                               /\ last.who = last.old
                               /\ ~is_bot(last.arg[1])
                               /\ voice[last.arg[1]] \in MatchZones
        /\ last.res = "ok" => match.owner_id = last.arg[1] /\ match.owner_id # last.old
        /\ last.res # "ok" => match.owner_id = last.old

\* C19 (amended): as above, except that the former owner stops being the owner
\* only when the target is someone else.
C19_Transfer ==
    last.op = "transfer" =>
        /\ last.res = "ok" <=> /\ match # NoMatch
                               /\ last.who = last.old
                               /\ ~is_bot(last.arg[1])
                               /\ voice[last.arg[1]] \in MatchZones
        /\ last.res = "ok" => /\ match.owner_id = last.arg[1]
                              /\ last.arg[1] # last.old => match.owner_id # last.old
        /\ last.res # "ok" => match.owner_id = last.old

C19_Witness ==
    /\ last.op = "transfer"
    /\ last.res = "ok"
    /\ last.who = last.old
    /\ match.owner_id = last.arg[1]
    /\ match.owner_id # last.old
    /\ voice[match.owner_id] \in MatchZones

\* C18: an End run clears only the match it began on: when a run finishes and
\* clears an active match, that match is the one whose category the run
\* recorded when it started, never a match installed after the run began.
C18_EndConfined ==
    (EndStep("ended") /\ last.arg.cleared # 0) => last.arg.cleared = last.arg.cat

C22_TimerNeverRaises ==
    timer.pc # "raised"

====
